---- MODULE Spec2Model ----
(***************************************************************************)
(* Access-control and admission-control core of unstuck-backend:           *)
(*   core/rate_limit.py    sliding-window transport throttle               *)
(*   core/auth.py          JWKS cache and bearer-token verification        *)
(*   core/subscription.py  tier / feature / quota gate                     *)
(*   database/service.py   usage-record store (get_or_create_user)         *)
(*   api/routes/*.py       order of the per-request dependencies           *)
(* Time is one clock, counted in ticks of 1/TicksPerSecond seconds.        *)
(***************************************************************************)
EXTENDS Integers, Sequences, FiniteSets, TLC

\* ------------------------------------------------------------------ bounds
TicksPerSecond == 2
MaxLimit == 2
MaxWindow == 2
MaxCalls == 4
MaxTime == 8
MaxPipelineTime == 2
MaxScopeLen == 3
MaxPermissions == 2

\* ------------------------------------------------------------------ state
VARIABLES
  now,        \* the clock (time.time() / datetime.utcnow()), in ticks
  limit,      \* settings.rate_limit_requests
  window,     \* settings.rate_limit_window, in seconds
  requests,   \* InMemoryRateLimitService._requests: key -> deque of instants
  calls,      \* history of is_rate_limited calls and their returned tuples
  jwks_cache,    \* Auth0JWTBearer._jwks_cache: Null is the empty dict
  cache_expiry,  \* Auth0JWTBearer._cache_expiry, in whole seconds
  users,      \* the users table: a set of rows
  next_id,    \* the next primary key uuid4() hands out
  resolved,   \* identity -> what get_or_create_user has returned, call by call
  started,    \* number of requests started so far
  req         \* the requests in flight: where each is and what it holds

limVars == <<limit, window, requests, calls>>
authVars == <<jwks_cache, cache_expiry>>
dbVars == <<users, next_id, resolved>>
vars == <<now, limit, window, requests, calls, jwks_cache, cache_expiry,
          users, next_id, resolved, started, req>>

Identities == {"u1", "u2"}
Addresses == {"a1"}
Reqs == {"r1", "r2"}

\* Rate-limit keys get_rate_limit_key produces:
\* <<"user", id>> is rate_limit:user:<id>, <<"ip", host>> is rate_limit:ip:<host>.
Keys == ({"user"} \X Identities) \cup ({"ip"} \X Addresses)

\* ---------------------------------------------------- core/rate_limit.py
\* Variant without the eviction loop: nothing is ever removed.
EvictExpired_never(q, cutoff) == q

\* Variant of the eviction loop that compares with < instead of <=.
RECURSIVE EvictExpired_strict(_, _)
EvictExpired_strict(q, cutoff) ==
  IF q # <<>> /\ Head(q) < cutoff THEN EvictExpired_strict(Tail(q), cutoff) ELSE q

\* while requests and requests[0] <= cutoff_time: requests.popleft()
RECURSIVE EvictExpired(_, _)
EvictExpired(q, cutoff) ==
  IF q # <<>> /\ Head(q) <= cutoff THEN EvictExpired(Tail(q), cutoff) ELSE q

\* int(window - (current_time - oldest_time)) + 1, clamped by max(.., 0).
\* int() truncates toward zero.
TruncToSeconds(ticks) ==
  IF ticks >= 0 THEN ticks \div TicksPerSecond ELSE -((-ticks) \div TicksPerSecond)

Max(a, b) == IF a >= b THEN a ELSE b

\* Variant of the retry-after computation without the "+ 1".
TimeUntilReset_floor(oldest, t, win) ==
  Max(TruncToSeconds(win * TicksPerSecond - (t - oldest)), 0)

TimeUntilReset(oldest, t, win) ==
  Max(TruncToSeconds(win * TicksPerSecond - (t - oldest)) + 1, 0)

\* Variant of is_rate_limited that records the call also when it is limited.
is_rate_limited_append(q, lim, win, t) ==
  LET kept == EvictExpired(q, t - win * TicksPerSecond)
      current_count == Len(kept)
  IN IF current_count >= lim
       THEN IF kept # <<>>
              THEN [limited |-> TRUE, count |-> current_count,
                    retry |-> TimeUntilReset(Head(kept), t, win), q |-> Append(kept, t)]
              ELSE [limited |-> TRUE, count |-> current_count,
                    retry |-> win, q |-> Append(kept, t)]
       ELSE [limited |-> FALSE, count |-> current_count + 1,
             retry |-> 0, q |-> Append(kept, t)]

\* InMemoryRateLimitService.is_rate_limited(key, limit, window) at instant t,
\* on the deque q stored for the key; returns the tuple and the deque left behind.
is_rate_limited(q, lim, win, t) ==
  LET kept == EvictExpired(q, t - win * TicksPerSecond)
      current_count == Len(kept)
  IN IF current_count >= lim
       THEN IF kept # <<>>
              THEN [limited |-> TRUE, count |-> current_count,
                    retry |-> TimeUntilReset(Head(kept), t, win), q |-> kept]
              ELSE [limited |-> TRUE, count |-> current_count,
                    retry |-> win, q |-> kept]
       ELSE [limited |-> FALSE, count |-> current_count + 1,
             retry |-> 0, q |-> Append(kept, t)]

\* ---------------------------------------------------- core/constants.py
\* SUBSCRIPTION_LIMITS[FREE]["max_total_requests"]
MaxTotalRequests == 150
\* SUBSCRIPTION_LIMITS[COMMUNITY]["max_monthly_requests"]
MaxMonthlyRequests == 300

\* SUBSCRIPTION_LIMITS: tier key -> configuration
SUBSCRIPTION_LIMITS ==
  [free |-> [max_total_requests |-> MaxTotalRequests,
             restricted_features |-> {"builds", "guides", "lore"}],
   community |-> [max_monthly_requests |-> MaxMonthlyRequests,
                  restricted_features |-> {"builds", "guides", "lore"}]]

\* ------------------------------------------------------- dates and times
SecondsPerDay == 86400
DayTicks == SecondsPerDay * TicksPerSecond
\* The eligibility test: days_since_reset >= 30
ResetDays == 30

\* A nullable datetime column: <<>> is None, <<t>> is the instant t.
Null == <<>>
Some(t) == <<t>>

\* (current_time - reset_date).days : timedelta.days is the floor.
DaysBetween(t, earlier) == (t - earlier) \div DayTicks

\* The calendar: instant 0 of the clock is 2025-01-01T00:00:00.
EpochYear == 2025
IsLeap(y) == (y % 4 = 0 /\ y % 100 # 0) \/ y % 400 = 0
\* calendar.monthrange(year, month)[1]
MonthRange(y, m) ==
  IF m = 2 THEN (IF IsLeap(y) THEN 29 ELSE 28)
  ELSE IF m \in {4, 6, 9, 11} THEN 30 ELSE 31
DaysInYear(y) == IF IsLeap(y) THEN 366 ELSE 365

\* Day number (0 = 1 January of year y) -> [year, month, day]
RECURSIVE DateFrom(_, _, _)
DateFrom(y, m, n) ==
  IF n < 0 THEN DateFrom(y - 1, 1, n + DaysInYear(y - 1))
  ELSE IF n >= MonthRange(y, m)
    THEN (IF m = 12 THEN DateFrom(y + 1, 1, n - MonthRange(y, m))
          ELSE DateFrom(y, m + 1, n - MonthRange(y, m)))
    ELSE [year |-> y, month |-> m, day |-> n + 1]

\* [year, month, 1] -> day number relative to 1 January of EpochYear
RECURSIVE DaysBefore(_, _)
DaysBefore(y, m) ==
  IF y < EpochYear THEN DaysBefore(y + 1, m) - DaysInYear(y)
  ELSE IF y > EpochYear THEN DaysBefore(y - 1, m) + DaysInYear(y - 1)
  ELSE IF m = 1 THEN 0 ELSE DaysBefore(y, m - 1) + MonthRange(y, m - 1)

\* dt(year, month + 1 (rolled over), min(day, monthrange), hour, minute, second)
AddCalendarMonth(t) ==
  LET n == t \div DayTicks
      inDay == t - n * DayTicks
      d == DateFrom(EpochYear, 1, n)
      month == IF d.month + 1 > 12 THEN 1 ELSE d.month + 1
      year == IF d.month + 1 > 12 THEN d.year + 1 ELSE d.year
      max_day == MonthRange(year, month)
      day == IF d.day <= max_day THEN d.day ELSE max_day
      \* the microsecond field is not passed to dt(...): whole seconds only
      secs == (inDay \div TicksPerSecond) * TicksPerSecond
  IN (DaysBefore(year, month) + day - 1) * DayTicks + secs

\* --------------------------------------------------- core/subscription.py
Ok == [status |-> 200]

\* Variant of the choice of the configuration in which a tier that is neither
\* free nor community has no configuration, and so no restricted feature.
TierConfig_known(tier) ==
  IF tier = "free" THEN SUBSCRIPTION_LIMITS.free
  ELSE IF tier = "community" THEN SUBSCRIPTION_LIMITS.community
  ELSE [restricted_features |-> {}]

\* tier_config = SUBSCRIPTION_LIMITS.get(FREE if tier == "free" else COMMUNITY)
TierConfig(tier) ==
  IF tier = "free" THEN SUBSCRIPTION_LIMITS.free ELSE SUBSCRIPTION_LIMITS.community

\* Variant of the feature check that lets a record through while it has made
\* no request yet.
check_feature_access_unused(user, feature) ==
  IF feature \in TierConfig(user.subscription_tier).restricted_features
     /\ user.total_requests + user.monthly_requests > 0
    THEN [status |-> 403, error |-> "feature_access_denied", feature |-> feature,
          current_tier |-> user.subscription_tier, upgrade_required |-> TRUE]
    ELSE Ok

\* _check_feature_access(user, feature): Ok, or the HTTPException raised
check_feature_access(user, feature) ==
  IF feature \in TierConfig(user.subscription_tier).restricted_features
    THEN [status |-> 403, error |-> "feature_access_denied", feature |-> feature,
          current_tier |-> user.subscription_tier, upgrade_required |-> TRUE]
    ELSE Ok

\* Variant of the lifetime test that never finds the quota used up.
LifetimeExhausted_never(user) == user.total_requests < 0

\* Variant of the lifetime test that lets the count reach one past the cap.
LifetimeExhausted_gt(user) ==
  user.total_requests > SUBSCRIPTION_LIMITS.free.max_total_requests

\* if user.total_requests >= max_requests
LifetimeExhausted(user) ==
  user.total_requests >= SUBSCRIPTION_LIMITS.free.max_total_requests

\* Variant of the eligibility test that needs more than 30 days.
ResetDue_gt(days_since_reset) == days_since_reset > ResetDays

\* if days_since_reset >= 30
ResetDue(days_since_reset) == days_since_reset >= ResetDays

\* Variant that counts the days left from 31.
DaysUntilReset_31(days_since_reset) == ResetDays + 1 - days_since_reset

\* days_until_reset = 30 - days_since_reset
DaysUntilReset(days_since_reset) == ResetDays - days_since_reset

\* Variant of the limit check that compares the monthly count with the cap
\* also while the reset date is null.
check_request_limit_null(user, t) ==
  LET tier == user.subscription_tier
      reset == user.request_count_reset_date
      days_since_reset == IF reset = Null THEN 0 ELSE DaysBetween(t, reset[1])
  IN IF tier = "free"
       THEN IF LifetimeExhausted(user)
              THEN [status |-> 429, error |-> "request_limit_exceeded",
                    current_requests |-> user.total_requests,
                    max_requests |-> SUBSCRIPTION_LIMITS.free.max_total_requests,
                    tier |-> tier, limit_type |-> "lifetime",
                    upgrade_required |-> TRUE]
              ELSE Ok
     ELSE IF tier = "community"
       THEN IF ResetDue(days_since_reset)
              THEN Ok
            ELSE IF user.monthly_requests
                      >= SUBSCRIPTION_LIMITS.community.max_monthly_requests
              THEN [status |-> 429, error |-> "monthly_request_limit_exceeded",
                    current_requests |-> user.monthly_requests,
                    max_requests |-> SUBSCRIPTION_LIMITS.community.max_monthly_requests,
                    tier |-> tier, limit_type |-> "monthly",
                    days_until_reset |-> DaysUntilReset(days_since_reset),
                    reset_date |-> reset]
              ELSE Ok
     ELSE Ok

\* _check_request_limit(user) at instant t: Ok, or the HTTPException raised
check_request_limit(user, t) ==
  LET tier == user.subscription_tier
  IN IF tier = "free"
       THEN IF LifetimeExhausted(user)
              THEN [status |-> 429, error |-> "request_limit_exceeded",
                    current_requests |-> user.total_requests,
                    max_requests |-> SUBSCRIPTION_LIMITS.free.max_total_requests,
                    tier |-> tier, limit_type |-> "lifetime",
                    upgrade_required |-> TRUE]
              ELSE Ok
     ELSE IF tier = "community"
       THEN IF user.request_count_reset_date = Null
              THEN Ok
              ELSE LET days_since_reset ==
                         DaysBetween(t, user.request_count_reset_date[1])
                   IN IF ResetDue(days_since_reset)
                        THEN Ok
                      ELSE IF user.monthly_requests
                                >= SUBSCRIPTION_LIMITS.community.max_monthly_requests
                        THEN [status |-> 429,
                              error |-> "monthly_request_limit_exceeded",
                              current_requests |-> user.monthly_requests,
                              max_requests |-> SUBSCRIPTION_LIMITS.community.max_monthly_requests,
                              tier |-> tier, limit_type |-> "monthly",
                              days_until_reset |-> DaysUntilReset(days_since_reset),
                              reset_date |-> user.request_count_reset_date]
                        ELSE Ok
     ELSE Ok

\* Variant of the projection that reports from the monthly count also when
\* the reset date is due.
get_request_limit_info_stale(user, t) ==
  LET tier == user.subscription_tier
  IN IF tier = "free"
       THEN [remaining_requests |->
               Max(0, SUBSCRIPTION_LIMITS.free.max_total_requests - user.total_requests),
             max_requests |-> SUBSCRIPTION_LIMITS.free.max_total_requests,
             limit_type |-> "lifetime", reset_date |-> Null]
     ELSE IF tier = "community"
       THEN LET max_monthly == SUBSCRIPTION_LIMITS.community.max_monthly_requests
            IN IF user.request_count_reset_date = Null
                 THEN [remaining_requests |-> max_monthly, max_requests |-> max_monthly,
                       limit_type |-> "monthly", reset_date |-> Null]
               ELSE [remaining_requests |-> Max(0, max_monthly - user.monthly_requests),
                     max_requests |-> max_monthly, limit_type |-> "monthly",
                     reset_date |->
                       Some(AddCalendarMonth(user.request_count_reset_date[1]))]
     ELSE [remaining_requests |-> 999999, max_requests |-> 999999,
           limit_type |-> "unlimited", reset_date |-> Null]

\* get_request_limit_info(user) at instant t
get_request_limit_info(user, t) ==
  LET tier == user.subscription_tier
  IN IF tier = "free"
       THEN [remaining_requests |->
               Max(0, SUBSCRIPTION_LIMITS.free.max_total_requests - user.total_requests),
             max_requests |-> SUBSCRIPTION_LIMITS.free.max_total_requests,
             limit_type |-> "lifetime", reset_date |-> Null]
     ELSE IF tier = "community"
       THEN LET max_monthly == SUBSCRIPTION_LIMITS.community.max_monthly_requests
            IN IF user.request_count_reset_date = Null
                 THEN [remaining_requests |-> max_monthly, max_requests |-> max_monthly,
                       limit_type |-> "monthly", reset_date |-> Null]
               ELSE IF ResetDue(DaysBetween(t, user.request_count_reset_date[1]))
                 THEN [remaining_requests |-> max_monthly, max_requests |-> max_monthly,
                       limit_type |-> "monthly", reset_date |-> Some(t)]
               ELSE [remaining_requests |-> Max(0, max_monthly - user.monthly_requests),
                     max_requests |-> max_monthly, limit_type |-> "monthly",
                     reset_date |->
                       Some(AddCalendarMonth(user.request_count_reset_date[1]))]
     ELSE [remaining_requests |-> 999999, max_requests |-> 999999,
           limit_type |-> "unlimited", reset_date |-> Null]

\* ---------------------------------------------------------- core/auth.py
\* Cache for 1 hour: self._cache_expiry = current_time + 3600
JwksTtl == 3600

\* Key-set documents the issuer's JWKS endpoint may serve (keys named by kid).
Docs == {[keys |-> {"k1"}], [keys |-> {"k1", "k2"}]}

\* A bearer token: whether its header parses, the kid of its header (Null when
\* it has none), the first thing wrong with it, its exp claim (seconds), its
\* sub, its scope claim (Null when absent) and its permissions claim.
Faults == {"none", "signature", "not_yet_valid", "audience", "issuer"}
ExpValues == {0, JwksTtl}
Tokens ==
  [header_ok : {TRUE}, kid : {Null, Some("k1"), Some("k2")},
   fault : Faults, exp : ExpValues, sub : {"u1"}, scope : {Null},
   permissions : {<<>>}]
  \cup {[header_ok |-> FALSE, kid |-> Null, fault |-> "none", exp |-> JwksTtl,
         sub |-> "u1", scope |-> Null, permissions |-> <<>>]}
ValidToken(u) ==
  [header_ok |-> TRUE, kid |-> Some("k1"), fault |-> "none", exp |-> JwksTtl,
   sub |-> u, scope |-> Null, permissions |-> <<>>]

\* int(time.time())
IntTime(t) == t \div TicksPerSecond

\* Variant of the cache check that still trusts the cache at the expiry instant.
CacheIsFresh_le(cache, expiry, current_time) == cache # Null /\ current_time <= expiry

\* get_jwks, the check of the cache: self._jwks_cache and current_time < self._cache_expiry
CacheIsFresh(cache, expiry, current_time) == cache # Null /\ current_time < expiry

\* Variant of get_rsa_key that falls back to a key of the set when no kid matches.
get_rsa_key_fallback(kid, jwks) ==
  IF kid = Null THEN Null
  ELSE IF kid[1] \in jwks.keys THEN kid
  ELSE Some(CHOOSE k \in jwks.keys : TRUE)

\* get_rsa_key(token_header, jwks): the matching key, or Null where it raises
\* AuthError invalid_header (no kid in the header, or no key with that kid).
get_rsa_key(kid, jwks) ==
  IF kid = Null THEN Null
  ELSE IF kid[1] \in jwks.keys THEN kid
  ELSE Null

\* jwt.decode(token, rsa_key, algorithms, audience, issuer): the library checks
\* the signature, then the claims nbf, exp, aud, iss in that order; exp is
\* compared in whole seconds.
jwt_decode(tok, t) ==
  IF tok.fault = "signature" THEN "signature"
  ELSE IF tok.fault = "not_yet_valid" THEN "claims"
  ELSE IF tok.exp < IntTime(t) THEN "expired"
  ELSE IF tok.fault = "audience" THEN "audience"
  ELSE IF tok.fault = "issuer" THEN "issuer"
  ELSE "ok"

\* Variant of the except clauses without the one for ExpiredSignatureError.
DecodeErrorKinds_noexp(failure) ==
  IF failure = "audience" THEN {"invalid_audience", "invalid_token"}
  ELSE IF failure = "issuer" THEN {"invalid_issuer", "invalid_token"}
  ELSE IF failure = "signature" THEN {"invalid_signature", "invalid_token"}
  ELSE {"invalid_token"}

\* The except clauses around jwt.decode.  ExpiredSignatureError is matched
\* first.  The later clauses name exception classes by attribute of the jwt
\* module; where the installed library has no such attribute the lookup itself
\* raises and the outer handler reports invalid_token.
DecodeErrorKinds(failure) ==
  IF failure = "expired" THEN {"token_expired"}
  ELSE IF failure = "audience" THEN {"invalid_audience", "invalid_token"}
  ELSE IF failure = "issuer" THEN {"invalid_issuer", "invalid_token"}
  ELSE IF failure = "signature" THEN {"invalid_signature", "invalid_token"}
  ELSE {"invalid_token"}

\* How a verify_token call ended.  Beside the status and the error kind it
\* notes the key handed to jwt.decode, the key set used and where it came from.
AuthResult(status, error, key, jwks, from, t) ==
  [status |-> status, error |-> error, key |-> key, jwks |-> jwks,
   jwks_from |-> from, at |-> t]
AuthError(error, key, jwks, from, t) == AuthResult(401, error, key, jwks, from, t)

\* verify_token from the point where it holds the key set jwks (taken from
\* "cache" or from "fetch"): the results it can end with at instant t.
\* key is the key handed to jwt.decode, Null when decode was not reached.
VerifyOutcomes(tok, jwks, from, t) ==
  LET rsa_key == get_rsa_key(tok.kid, jwks)
      failure == jwt_decode(tok, t)
  IN IF rsa_key = Null
       THEN {AuthError("invalid_header", Null, Some(jwks), from, t)}
     ELSE IF failure = "ok"
       THEN {AuthResult(200, "", rsa_key, Some(jwks), from, t)}
     ELSE {AuthError(e, rsa_key, Some(jwks), from, t) : e \in DecodeErrorKinds(failure)}

\* A string is the sequence of its characters; " " is the whitespace character.
\* str.split(): the maximal runs of non-whitespace characters, in order.
RECURSIVE split_words(_, _, _)
split_words(s, word, words) ==
  IF s = <<>> THEN (IF word = <<>> THEN words ELSE Append(words, word))
  ELSE IF Head(s) = " "
    THEN split_words(Tail(s), <<>>, IF word = <<>> THEN words ELSE Append(words, word))
    ELSE split_words(Tail(s), Append(word, Head(s)), words)
split(s) == split_words(s, <<>>, <<>>)

Range(xs) == {xs[i] : i \in DOMAIN xs}

\* Variant of the deduplication in which a repeated key moves to the place of
\* its last occurrence.
RECURSIVE dict_fromkeys_last(_)
dict_fromkeys_last(xs) ==
  IF xs = <<>> THEN <<>>
  ELSE IF Head(xs) \in Range(Tail(xs)) THEN dict_fromkeys_last(Tail(xs))
  ELSE <<Head(xs)>> \o dict_fromkeys_last(Tail(xs))

\* list(dict.fromkeys(permissions)): a dict keeps a key where it was first inserted
RECURSIVE dict_fromkeys(_)
dict_fromkeys(xs) ==
  IF xs = <<>> THEN <<>>
  ELSE LET front == dict_fromkeys(SubSeq(xs, 1, Len(xs) - 1))
           last == xs[Len(xs)]
       IN IF last \in Range(front) THEN front ELSE Append(front, last)

\* get_current_user(user): the AuthenticatedUser built from the token's claims
get_current_user(user) ==
  LET from_scope == IF user.scope # Null /\ user.scope[1] # <<>>
                      THEN split(user.scope[1]) ELSE <<>>
      permissions == from_scope \o user.permissions
  IN [user_id |-> user.sub, permissions |-> dict_fromkeys(permissions)]

\* ------------------------------------------------- database/service.py
\* select(User).where(User.auth0_user_id == auth0_user_id)
FindUser(tbl, u) == {row \in tbl : row.auth0_user_id = u}
TheRow(rows) == CHOOSE row \in rows : TRUE

\* Variant of the row constructor that starts the lifetime count at one.
NewUser_counted(id, u, t) ==
  [id |-> id, auth0_user_id |-> u, subscription_tier |-> "free",
   total_requests |-> 1, monthly_requests |-> 0,
   request_count_reset_date |-> Null, last_active_at |-> t]

\* User(auth0_user_id=..., last_active_at=utcnow()) with the column defaults
NewUser(id, u, t) ==
  [id |-> id, auth0_user_id |-> u, subscription_tier |-> "free",
   total_requests |-> 0, monthly_requests |-> 0,
   request_count_reset_date |-> Null, last_active_at |-> t]

\* Variant of the update that leaves the monthly count of a community record
\* alone while its reset date is not due.
increment_user_requests_lifetime(row, t) ==
  LET counted == [row EXCEPT !.total_requests = @ + 1]
  IN IF row.subscription_tier = "community"
       THEN IF row.request_count_reset_date # Null
               /\ ResetDue(DaysBetween(t, row.request_count_reset_date[1]))
              THEN [counted EXCEPT !.monthly_requests = 1,
                                   !.request_count_reset_date = Some(t)]
            ELSE IF row.request_count_reset_date = Null
              THEN [counted EXCEPT !.request_count_reset_date = Some(t)]
            ELSE counted
       ELSE counted

\* DatabaseService.increment_user_requests(user.id): the row after the update
increment_user_requests(row, t) ==
  LET counted == [row EXCEPT !.total_requests = @ + 1]
  IN IF row.subscription_tier = "community"
       THEN IF row.request_count_reset_date # Null
               /\ ResetDue(DaysBetween(t, row.request_count_reset_date[1]))
              THEN [counted EXCEPT !.monthly_requests = 1,
                                   !.request_count_reset_date = Some(t)]
            ELSE IF row.request_count_reset_date = Null
              THEN [counted EXCEPT !.monthly_requests = @ + 1,
                                   !.request_count_reset_date = Some(t)]
            ELSE [counted EXCEPT !.monthly_requests = @ + 1]
       ELSE counted

\* ------------------------------------------------------ requests in flight
MaxRequests == 2
IdleReq == [pc |-> "idle"]

\* What each entry point runs, in the order FastAPI resolves its dependencies
\* (the order of the parameters of the handler):
\*   verify_token                      the bearer dependency alone
\*   create_voice_session              get_current_user, the limits-only gate,
\*                                     get_db_session, check_rate_limit, the body
\*   gaming_builds                     check_builds_access, get_db_session,
\*                                     check_rate_limit, the body
\*   check_feature_access_and_limits   the dependency alone
\*   get_current_user                  the bearer dependency and get_current_user
\*   gaming_chat                       get_current_user, get_db_session,
\*                                     check_rate_limit, the body
\*   get_request_limit_info            the function, on the row get_or_create_user
\*                                     returns for the caller
Routes == {"verify_token", "create_voice_session", "gaming_builds",
           "check_feature_access_and_limits", "get_current_user", "gaming_chat",
           "get_request_limit_info"}
Features == {"builds", "guides", "lore", "chat"}
ChecksFeature(route) == route \in {"gaming_builds", "check_feature_access_and_limits"}
ChecksLimit(route) == route \in {"create_voice_session", "check_feature_access_and_limits"}
Throttled(route) == route \in {"create_voice_session", "gaming_builds"}
\* Routes whose body, not a dependency, calls get_or_create_user.
LooksUpInBody(route) == route = "gaming_chat"

Done(q, at, outcome) == [q EXCEPT !.pc = "done", !.rejected_at = at, !.outcome = outcome]
Admit(q) == Done(q, "", Ok)

\* get_rate_limit_key(request)
get_rate_limit_key(user_id, client_ip) ==
  IF user_id # Null THEN <<"user", user_id[1]>> ELSE <<"ip", client_ip>>

\* A request arrives.
Start(r, route, feature, tok, addr) ==
  /\ req[r].pc \in {"idle", "done"}
  /\ started < MaxRequests
  /\ started' = started + 1
  /\ req' = [req EXCEPT ![r] =
       [pc |-> "auth", route |-> route, feature |-> feature, addr |-> addr,
        tok |-> tok, user_id |-> Null, current_time |-> 0, auth |-> Null,
        user |-> Null, outcome |-> Null, rejected_at |-> "", bumps |-> 0,
        throttle |-> Null, began |-> now,
        cache_seen |-> [jwks |-> Null, expiry |-> 0],
        created |-> FALSE, internal_user |-> Null,
        checked_at |-> 0, incremented_at |-> 0,
        current_user |-> Null, info |-> Null, was_reset |-> FALSE,
        fetches |-> 0]]
  /\ UNCHANGED <<now, limVars, authVars, dbVars>>

\* Variant in which a request goes on to the later steps whatever verify_token
\* ended with.
AfterAuth_lenient(q, res) ==
  LET q1 == [q EXCEPT !.auth = Some(res)]
      q2 == [q1 EXCEPT !.current_user = Some(get_current_user(q.tok))]
  IN IF q.route = "verify_token" THEN Admit(q1)
     ELSE IF q.route = "get_current_user" THEN Admit(q2)
     ELSE IF LooksUpInBody(q.route) THEN [q2 EXCEPT !.pc = "throttle"]
     ELSE [q2 EXCEPT !.pc = "lookup"]

\* Auth0JWTBearer.__call__ and get_current_user, once verify_token has ended with res
AfterAuth(q, res) ==
  LET q1 == [q EXCEPT !.auth = Some(res)]
      q2 == [q1 EXCEPT !.current_user = Some(get_current_user(q.tok))]
  IN IF res.status # 200 THEN Done(q1, "auth", [status |-> res.status, error |-> res.error])
     ELSE IF q.route = "verify_token" THEN Admit(q1)
     ELSE IF q.route = "get_current_user" THEN Admit(q2)
     ELSE IF LooksUpInBody(q.route) THEN [q2 EXCEPT !.pc = "throttle"]
     ELSE [q2 EXCEPT !.pc = "lookup"]

\* The cache as get_jwks finds it.
CacheSeen == [jwks |-> jwks_cache, expiry |-> cache_expiry]

\* verify_token up to its first suspension, when it ends there: the header does
\* not parse, or get_jwks answers from the cache.
VerifyCached(r) ==
  /\ req[r].pc = "auth"
  /\ \/ /\ ~req[r].tok.header_ok
        /\ req' = [req EXCEPT ![r] =
                     AfterAuth(@, AuthError("invalid_header", Null, Null, "none", now))]
     \/ /\ req[r].tok.header_ok
        /\ CacheIsFresh(jwks_cache, cache_expiry, IntTime(now))
        /\ \E res \in VerifyOutcomes(req[r].tok, jwks_cache[1], "cache", now) :
             req' = [req EXCEPT ![r] =
                       AfterAuth([@ EXCEPT !.began = now, !.cache_seen = CacheSeen], res)]
  /\ UNCHANGED <<now, limVars, authVars, dbVars, started>>

\* get_jwks misses the cache and suspends in client.get(settings.auth0_jwks_url)
FetchBegin(r) ==
  /\ req[r].pc = "auth"
  /\ req[r].tok.header_ok
  /\ ~CacheIsFresh(jwks_cache, cache_expiry, IntTime(now))
  /\ req' = [req EXCEPT ![r] = [@ EXCEPT !.pc = "fetching", !.current_time = IntTime(now),
                                          !.began = now, !.cache_seen = CacheSeen,
                                          !.fetches = @ + 1]]
  /\ UNCHANGED <<now, limVars, authVars, dbVars, started>>

\* Variant of the refresh that never moves the expiry of the cache back.
FetchSucceeds_keep_later(r) ==
  /\ req[r].pc = "fetching"
  /\ \E jwks \in Docs :
       /\ jwks_cache' = Some(jwks)
       /\ cache_expiry' = Max(cache_expiry, req[r].current_time + JwksTtl)
       /\ \E res \in VerifyOutcomes(req[r].tok, jwks, "fetch", now) :
            req' = [req EXCEPT ![r] = AfterAuth(@, res)]
  /\ UNCHANGED <<now, limVars, dbVars, started>>

\* The fetch answers: the document is cached and verify_token goes on with it.
FetchSucceeds(r) ==
  /\ req[r].pc = "fetching"
  /\ \E jwks \in Docs :
       /\ jwks_cache' = Some(jwks)
       /\ cache_expiry' = req[r].current_time + JwksTtl
       /\ \E res \in VerifyOutcomes(req[r].tok, jwks, "fetch", now) :
            req' = [req EXCEPT ![r] = AfterAuth(@, res)]
  /\ UNCHANGED <<now, limVars, dbVars, started>>

\* Variant of the failure that caches it: the expiry is moved on as after a
\* fetch that succeeded, the document stays.
FetchFails_negative(r) ==
  /\ req[r].pc = "fetching"
  /\ cache_expiry' = req[r].current_time + JwksTtl
  /\ req' = [req EXCEPT ![r] =
               AfterAuth(@, AuthError("invalid_token", Null, Null, "failed", now))]
  /\ UNCHANGED <<now, limVars, jwks_cache, dbVars, started>>

\* The fetch raises httpx.HTTPError: get_jwks raises HTTPException(503), which
\* verify_token's "except Exception" turns into AuthError invalid_token.
FetchFails(r) ==
  /\ req[r].pc = "fetching"
  /\ req' = [req EXCEPT ![r] =
               AfterAuth(@, AuthError("invalid_token", Null, Null, "failed", now))]
  /\ UNCHANGED <<now, limVars, authVars, dbVars, started>>

\* Where a request goes once get_or_create_user has returned row to it.
AfterLookup(q, row) ==
  LET q1 == [q EXCEPT !.user = Some(row)]
  IN IF LooksUpInBody(q.route) THEN Admit([q1 EXCEPT !.internal_user = Some(row)])
     ELSE IF q.route = "get_request_limit_info" THEN [q1 EXCEPT !.pc = "info"]
     ELSE [q1 EXCEPT !.pc = "checks"]

\* What a call of get_or_create_user returned, for the history of the calls.
Returned(row, created) == [id |-> row.id, created |-> created]

\* get_or_create_user, the lookup: an existing row is touched and returned.
LookupUser(r) ==
  /\ req[r].pc = "lookup"
  /\ LET u == req[r].current_user[1].user_id
         rows == FindUser(users, u)
     IN IF rows # {}
          THEN LET row == [TheRow(rows) EXCEPT !.last_active_at = now]
               IN /\ users' = (users \ rows) \cup {row}
                  /\ resolved' = [resolved EXCEPT ![u] = Append(@, Returned(row, FALSE))]
                  /\ req' = [req EXCEPT ![r] = AfterLookup(@, row)]
          ELSE /\ req' = [req EXCEPT ![r] = [@ EXCEPT !.pc = "insert"]]
               /\ UNCHANGED <<users, resolved>>
  /\ UNCHANGED <<now, limVars, authVars, next_id, started>>

\* get_or_create_user, the insert: self.db.add(user); commit; refresh.  The
\* unique index on auth0_user_id refuses a second row: rollback and re-raise.
InsertUser(r) ==
  /\ req[r].pc = "insert"
  /\ LET u == req[r].current_user[1].user_id
     IN IF FindUser(users, u) = {}
          THEN LET row == NewUser(next_id, u, now)
               IN /\ users' = users \cup {row}
                  /\ next_id' = next_id + 1
                  /\ resolved' = [resolved EXCEPT ![u] = Append(@, Returned(row, TRUE))]
                  /\ req' = [req EXCEPT ![r] = AfterLookup([@ EXCEPT !.created = TRUE], row)]
          ELSE /\ req' = [req EXCEPT ![r] =
                            Done(@, "store",
                                 [status |-> 500,
                                  error |-> IF LooksUpInBody(req[r].route)
                                              THEN "search_failed" ELSE "integrity_error"])]
               /\ UNCHANGED <<users, next_id, resolved>>
  /\ UNCHANGED <<now, limVars, authVars, started>>

\* Where a request goes once its quota gate has let it through.
AfterGate(q) == IF Throttled(q.route) THEN [q EXCEPT !.pc = "throttle"] ELSE Admit(q)

\* Variant of the checks in which the request limit is checked before the
\* feature.
GateChecks_quota_first(r) ==
  /\ req[r].pc = "checks"
  /\ LET q == [req[r] EXCEPT !.checked_at = now, !.internal_user = req[r].user]
         user == q.user[1]
         f == IF ChecksFeature(q.route) THEN check_feature_access(user, q.feature) ELSE Ok
         l == IF ChecksLimit(q.route) THEN check_request_limit(user, now) ELSE Ok
     IN req' = [req EXCEPT ![r] =
                  IF l.status # 200 THEN Done(q, "quota", l)
                  ELSE IF f.status # 200 THEN Done(q, "feature", f)
                  ELSE IF ChecksLimit(q.route) THEN [q EXCEPT !.pc = "increment"]
                  ELSE AfterGate(q)]
  /\ UNCHANGED <<now, limVars, authVars, dbVars, started>>

\* _check_feature_access and _check_request_limit on the row get_or_create_user returned
GateChecks(r) ==
  /\ req[r].pc = "checks"
  /\ LET q == [req[r] EXCEPT !.checked_at = now, !.internal_user = req[r].user]
         user == q.user[1]
         f == IF ChecksFeature(q.route) THEN check_feature_access(user, q.feature) ELSE Ok
         l == IF ChecksLimit(q.route) THEN check_request_limit(user, now) ELSE Ok
     IN req' = [req EXCEPT ![r] =
                  IF f.status # 200 THEN Done(q, "feature", f)
                  ELSE IF l.status # 200 THEN Done(q, "quota", l)
                  ELSE IF ChecksLimit(q.route) THEN [q EXCEPT !.pc = "increment"]
                  ELSE AfterGate(q)]
  /\ UNCHANGED <<now, limVars, authVars, dbVars, started>>

\* return await db_service.increment_user_requests(user.id)
IncrementUsage(r) ==
  /\ req[r].pc = "increment"
  /\ LET q == req[r]
         rows == {row \in users : row.id = q.user[1].id}
         row == increment_user_requests(TheRow(rows), now)
     IN /\ rows # {}
        /\ users' = (users \ rows) \cup {row}
        /\ req' = [req EXCEPT ![r] =
                     AfterGate([q EXCEPT !.internal_user = Some(row), !.bumps = @ + 1,
                                         !.incremented_at = now,
                                         !.was_reset = row.monthly_requests
                                                         < TheRow(rows).monthly_requests])]
  /\ UNCHANGED <<now, limVars, authVars, next_id, resolved, started>>

\* check_rate_limit(request): the key, the limiter, 429 when limited
Throttle(r) ==
  /\ req[r].pc = "throttle"
  /\ LET q == req[r]
         key == get_rate_limit_key(q.user_id, q.addr)
         res == is_rate_limited(requests[key], limit, window, now)
         seen == [key |-> key, limited |-> res.limited, count |-> res.count,
                  retry |-> res.retry]
     IN /\ requests' = [requests EXCEPT ![key] = res.q]
        /\ req' = [req EXCEPT ![r] =
                     IF res.limited
                       THEN Done([q EXCEPT !.throttle = Some(seen)], "throttle",
                                 [status |-> 429, error |-> "rate_limit_exceeded",
                                  current_requests |-> res.count, limit |-> limit,
                                  window_seconds |-> window, retry_after |-> res.retry])
                       ELSE [q EXCEPT !.pc = "handler", !.throttle = Some(seen)]]
  /\ UNCHANGED <<now, limit, window, calls, authVars, dbVars, started>>

\* The body of the handler up to its first await.  gaming_chat sets
\* request.state.user_id = current_user.user_id and goes on to
\* get_or_create_user; the others set
\* request.state.user_id = internal_user.auth0_user_id and serve the request.
Handler(r) ==
  /\ req[r].pc = "handler"
  /\ req' = [req EXCEPT ![r] =
               IF LooksUpInBody(req[r].route)
                 THEN [@ EXCEPT !.pc = "lookup",
                                !.user_id = Some(req[r].current_user[1].user_id)]
                 ELSE Admit([@ EXCEPT !.user_id =
                                        Some(req[r].internal_user[1].auth0_user_id)])]
  /\ UNCHANGED <<now, limVars, authVars, dbVars, started>>

\* get_request_limit_info(internal_user), called on the row the caller holds
LimitInfo(r) ==
  /\ req[r].pc = "info"
  /\ req' = [req EXCEPT ![r] =
               Admit([@ EXCEPT !.info = Some(get_request_limit_info(req[r].user[1], now)),
                               !.checked_at = now])]
  /\ UNCHANGED <<now, limVars, authVars, dbVars, started>>

\* ------------------------------------------------------------------ clock
\* The clock moves on by one tick, up to the given horizon.
TickTo(horizon) ==
  /\ now < horizon
  /\ now' = now + 1
  /\ UNCHANGED <<limVars, authVars, dbVars, started, req>>

Tick == TickTo(MaxTime)

\* ------------------------------------------- limiter called on its own
LimiterInit ==
  /\ now = 0
  /\ limit \in 1..MaxLimit
  /\ window \in 1..MaxWindow
  /\ requests = [k \in Keys |-> <<>>]
  /\ calls = <<>>
  /\ jwks_cache = Null /\ cache_expiry = 0
  /\ users = {} /\ next_id = 1
  /\ resolved = [u \in Identities |-> <<>>]
  /\ started = 0
  /\ req = [r \in Reqs |-> IdleReq]

LimiterCall(k) ==
  /\ Len(calls) < MaxCalls
  /\ LET r == is_rate_limited(requests[k], limit, window, now)
     IN /\ requests' = [requests EXCEPT ![k] = r.q]
        /\ calls' = Append(calls, [key |-> k, t |-> now, limited |-> r.limited,
                                   count |-> r.count, retry |-> r.retry])
  /\ UNCHANGED <<now, limit, window, authVars, dbVars, started, req>>

LimiterKeys == {<<"user", "u1">>, <<"ip", "a1">>}

LimiterNext == Tick \/ \E k \in LimiterKeys : LimiterCall(k)

SpecLimiter == LimiterInit /\ [][LimiterNext]_vars

\* --------------------------------------------- the token verifier on its own
JwksTtlTicks == JwksTtl * TicksPerSecond
AuthHorizon == 2 * JwksTtlTicks + 2

AuthInit ==
  /\ now = 0
  /\ limit = 1 /\ window = 1
  /\ requests = [k \in Keys |-> <<>>]
  /\ calls = <<>>
  /\ jwks_cache = Null /\ cache_expiry = 0
  /\ users = {} /\ next_id = 1
  /\ resolved = [u \in Identities |-> <<>>]
  /\ started = 0
  /\ req = [r \in Reqs |-> IdleReq]

\* Time passes: about one lifetime of the cache, to either side of its end.
Elapse ==
  /\ \E d \in {JwksTtlTicks - 1, JwksTtlTicks, JwksTtlTicks + 1} :
       /\ now + d <= AuthHorizon
       /\ now' = now + d
  /\ UNCHANGED <<limVars, authVars, dbVars, started, req>>

VerifySteps(r) ==
  \/ VerifyCached(r)
  \/ FetchBegin(r)
  \/ FetchSucceeds(r)
  \/ FetchFails(r)

AuthNext ==
  \/ Elapse
  \/ \E tok \in Tokens : Start("r1", "verify_token", "", tok, "a1")
  \/ Start("r2", "verify_token", "", ValidToken("u1"), "a1")
  \/ \E r \in Reqs : VerifySteps(r)

SpecAuth == AuthInit /\ [][AuthNext]_vars

\* ------------------------------------------------- the request pipeline
\* A row of the users table left by earlier requests.
StoredUser(id, u, tier, total, monthly, reset) ==
  [id |-> id, auth0_user_id |-> u, subscription_tier |-> tier,
   total_requests |-> total, monthly_requests |-> monthly,
   request_count_reset_date |-> reset, last_active_at |-> 0]

\* Tables the pipeline starts from: empty, or one identity close to its cap
\* (the last one with its monthly counter due for a reset).
InitTables ==
  {{}}
  \cup {{StoredUser(1, "u1", "free", n, 0, Null)} :
          n \in {MaxTotalRequests - 1, MaxTotalRequests}}
  \cup {{StoredUser(1, "u1", "community", MaxTotalRequests, MaxMonthlyRequests - 1,
                     Some(-5 * DayTicks))}}
  \cup {{StoredUser(1, "u1", "community", MaxTotalRequests, MaxMonthlyRequests,
                     Some(-ResetDays * DayTicks))}}

NoKidToken ==
  [header_ok |-> TRUE, kid |-> Null, fault |-> "none", exp |-> JwksTtl,
   sub |-> "u1", scope |-> Null, permissions |-> <<>>]

\* Route, feature argument and token of the requests the pipeline serves.
RouteInputs ==
  {<<"create_voice_session", "", ValidToken("u1")>>,
   <<"gaming_builds", "builds", ValidToken("u1")>>,
   <<"gaming_chat", "", ValidToken("u2")>>,
   <<"gaming_chat", "", NoKidToken>>}

Init ==
  /\ now = 0
  /\ limit = 1 /\ window = 1
  /\ requests = [k \in Keys |-> <<>>]
  /\ calls = <<>>
  /\ jwks_cache = Some([keys |-> {"k1"}]) /\ cache_expiry = JwksTtl
  /\ users \in InitTables
  /\ next_id = Cardinality(users) + 1
  /\ resolved = [u \in Identities |-> <<>>]
  /\ started = 0
  /\ req = [r \in Reqs |-> IdleReq]

GateSteps(r) ==
  \/ LookupUser(r)
  \/ InsertUser(r)
  \/ GateChecks(r)
  \/ IncrementUsage(r)
  \/ Throttle(r)
  \/ Handler(r)

Next ==
  \/ TickTo(MaxPipelineTime)
  \/ \E ri \in RouteInputs : Start("r1", ri[1], ri[2], ri[3], "a1")
  \/ Start("r2", "create_voice_session", "", ValidToken("u1"), "a1")
  \/ \E r \in Reqs :
       \/ VerifyCached(r)
       \/ GateSteps(r)

Spec == Init /\ [][Next]_vars

\* ------------------------------------------------ the quota gate on its own
\* Usage records of one identity: either tier, counters around the caps, and
\* reset dates around the 30-day mark (to the tick).
QuotaResets ==
  {Null, Some(0)}
  \cup {Some(-(d * DayTicks) + o) : d \in {5, ResetDays - 1, ResetDays, ResetDays + 1},
                                    o \in {0, 1}}
\* subscription_tier is a string column: records of a tier that is neither
\* free nor community, with counters under and over both caps.
OtherTierRows ==
  {StoredUser(1, "u1", "pro", total, monthly, reset) :
     total \in {0, MaxTotalRequests + 1},
     monthly \in {0, MaxMonthlyRequests + 1},
     reset \in {Null, Some(-(5 * DayTicks))}}
QuotaRows ==
  {StoredUser(1, "u1", tier, total, monthly, reset) :
     tier \in {"free", "community"},
     total \in {0, MaxTotalRequests - 1, MaxTotalRequests, MaxTotalRequests + 1},
     monthly \in {0, MaxMonthlyRequests - 1, MaxMonthlyRequests, MaxMonthlyRequests + 1},
     reset \in QuotaResets}
  \cup OtherTierRows

QuotaInit ==
  /\ now = 0
  /\ limit = 1 /\ window = 1
  /\ requests = [k \in Keys |-> <<>>]
  /\ calls = <<>>
  /\ jwks_cache = Some([keys |-> {"k1"}]) /\ cache_expiry = JwksTtl
  /\ users \in {{}} \cup {{row} : row \in QuotaRows}
  /\ next_id = Cardinality(users) + 1
  /\ resolved = [u \in Identities |-> <<>>]
  /\ started = 0
  /\ req = [r \in Reqs |-> IdleReq]

QuotaNext ==
  \/ TickTo(MaxPipelineTime)
  \/ \E f \in Features :
       Start("r1", "check_feature_access_and_limits", f, ValidToken("u1"), "a1")
  \/ Start("r1", "create_voice_session", "", ValidToken("u1"), "a1")
  \/ Start("r1", "get_request_limit_info", "", ValidToken("u1"), "a1")
  \/ VerifyCached("r1")
  \/ GateSteps("r1")
  \/ LimitInfo("r1")

SpecQuota == QuotaInit /\ [][QuotaNext]_vars

\* ------------------------------------------- get_current_user on its own
\* The scope claims: absent, or a string of at most MaxScopeLen characters.
ScopeChars == {"r", "w", " "}
Scopes ==
  {Null} \cup {Some(str) : str \in UNION {[1..n -> ScopeChars] : n \in 0..MaxScopeLen}}
\* The permissions claims: lists of at most MaxPermissions permission strings.
PermissionStrings == {<<"r">>, <<"w">>}
PermissionLists == UNION {[1..n -> PermissionStrings] : n \in 0..MaxPermissions}
PermissionTokens ==
  {[ValidToken("u1") EXCEPT !.scope = scope, !.permissions = permissions] :
     scope \in Scopes, permissions \in PermissionLists}

PermissionsInit ==
  /\ now = 0
  /\ limit = 1 /\ window = 1
  /\ requests = [k \in Keys |-> <<>>]
  /\ calls = <<>>
  /\ jwks_cache = Some([keys |-> {"k1"}]) /\ cache_expiry = JwksTtl
  /\ users = {} /\ next_id = 1
  /\ resolved = [u \in Identities |-> <<>>]
  /\ started = 0
  /\ req = [r \in Reqs |-> IdleReq]

PermissionsNext ==
  \/ \E tok \in PermissionTokens : Start("r1", "get_current_user", "", tok, "a1")
  \/ VerifyCached("r1")

SpecPermissions == PermissionsInit /\ [][PermissionsNext]_vars

\* ================================================================ claims
\* ---- sliding-window limiter
CallsOf(k) == SelectSeq(calls, LAMBDA c : c.key = k)
WindowTicks == window * TicksPerSecond

\* No request recorded for the key in the W seconds before call i of history h.
EmptyWindowAt(h, i) ==
  \A j \in 1..(i - 1) : h[j].limited \/ h[i].t - h[j].t >= WindowTicks

\* C2: from an empty window, limit successive calls for a key inside one window
\* return not-limited with counts 1..limit, the next call inside that window
\* returns limited with a positive retry-after, and a call made once window
\* seconds have passed since the last recorded request returns not-limited
\* with count 1.
C2_WindowScenario ==
  \A k \in Keys :
    LET h == CallsOf(k)
    IN \A i \in 1..Len(h) :
         EmptyWindowAt(h, i) =>
           /\ \A m \in 0..(limit - 1) :
                (i + m <= Len(h) /\ h[i + m].t - h[i].t < WindowTicks)
                  => (~h[i + m].limited /\ h[i + m].count = m + 1)
           /\ (i + limit <= Len(h) /\ h[i + limit].t - h[i].t < WindowTicks)
                  => (h[i + limit].limited /\ h[i + limit].retry > 0)

\* limit calls admitted, the next one limited inside the window, and a later
\* call admitted again with count 1 after the window has passed.
C2_Witness ==
  \E k \in Keys :
    LET h == CallsOf(k)
    IN /\ limit = 2
       /\ Len(h) = limit + 2
       /\ h[limit + 1].limited
       /\ h[limit + 1].t - h[1].t < WindowTicks
       /\ h[limit + 2].t - h[limit].t >= WindowTicks
       /\ ~h[limit + 2].limited /\ h[limit + 2].count = 1

\* ---- quota gate
Finished(r) == req[r].pc = "done"
Admitted(r) == Finished(r) /\ req[r].outcome.status = 200
Rejected(r) == Finished(r) /\ req[r].outcome.status # 200

\* _check_request_limit has run for request r (on the row req[r].user).
LimitChecked(r) ==
  /\ req[r].pc \in {"increment", "throttle", "handler", "done"}
  /\ ChecksLimit(req[r].route)
  /\ req[r].user # Null
  /\ req[r].rejected_at \notin {"auth", "store", "feature"}
\* _check_feature_access has run for request r.
FeatureChecked(r) ==
  /\ req[r].pc \in {"increment", "throttle", "handler", "done"}
  /\ ChecksFeature(req[r].route)
  /\ req[r].user # Null
  /\ req[r].rejected_at \notin {"auth", "store"}
QuotaRejected(r, error) ==
  Rejected(r) /\ req[r].rejected_at = "quota" /\ req[r].outcome.error = error

\* C1: a request that ends rejected (at authentication, the throttle, the
\* feature check or the quota check) has incremented no usage counter, and a
\* request to a route that counts against the quota that ends admitted has
\* incremented them exactly once.
C1_AllOrNothing ==
  \A r \in Reqs :
    /\ Rejected(r) => req[r].bumps = 0
    /\ (Admitted(r) /\ ChecksLimit(req[r].route)) => req[r].bumps = 1

\* C3: for a free-tier record, _check_request_limit rejects with
\* request_limit_exceeded exactly when total_requests >= 150, and then the
\* remaining quota reported is 0; a record at 149 is admitted and, after its
\* one increment, the remaining quota reported is 0.
C3_LifetimeCap ==
  \A r \in Reqs :
    (LimitChecked(r) /\ req[r].user[1].subscription_tier = "free") =>
      LET user == req[r].user[1]
      IN /\ QuotaRejected(r, "request_limit_exceeded")
              <=> user.total_requests >= MaxTotalRequests
         /\ Rejected(r) /\ req[r].rejected_at = "quota"
              => get_request_limit_info(user, req[r].checked_at).remaining_requests = 0
         /\ (user.total_requests = MaxTotalRequests - 1 /\ req[r].bumps = 1)
              => /\ req[r].internal_user[1].total_requests = MaxTotalRequests
                 /\ get_request_limit_info(req[r].internal_user[1],
                                           req[r].incremented_at).remaining_requests = 0

\* A free-tier record at 149 was admitted and incremented to 150.
C3_Witness ==
  \E r \in Reqs :
    /\ LimitChecked(r)
    /\ req[r].user[1].subscription_tier = "free"
    /\ req[r].user[1].total_requests = MaxTotalRequests - 1
    /\ req[r].bumps = 1
    /\ users = {req[r].internal_user[1]}

\* C4: for a community record whose reset date lies 30 days or more before
\* the check, _check_request_limit admits whatever monthly_requests is, and
\* after the increment for that request the record has monthly_requests = 1
\* and request_count_reset_date = the instant of the increment.
C4_MonthlyReset ==
  \A r \in Reqs :
    (/\ LimitChecked(r)
     /\ req[r].user[1].subscription_tier = "community"
     /\ req[r].user[1].request_count_reset_date # Null
     /\ req[r].checked_at - req[r].user[1].request_count_reset_date[1]
          >= 30 * DayTicks) =>
      /\ req[r].rejected_at # "quota"
      /\ req[r].bumps = 1 =>
           /\ req[r].internal_user[1].monthly_requests = 1
           /\ req[r].internal_user[1].request_count_reset_date
                = Some(req[r].incremented_at)

\* A community record at its monthly cap, reset exactly 30 days ago, was
\* admitted and its counter restarted.
C4_Witness ==
  \E r \in Reqs :
    /\ LimitChecked(r)
    /\ req[r].user[1].subscription_tier = "community"
    /\ req[r].user[1].monthly_requests >= MaxMonthlyRequests
    /\ req[r].user[1].request_count_reset_date = Some(-(30 * DayTicks))
    /\ req[r].bumps = 1
    /\ req[r].internal_user[1].monthly_requests = 1

\* C5: for a community record whose reset date lies d whole days before the
\* check, 0 <= d < 30: with monthly_requests >= 300 the request is rejected
\* with monthly_request_limit_exceeded and days_until_reset = 30 - d; with
\* monthly_requests < 300 it is not rejected.
C5_MonthlyCap ==
  \A r \in Reqs :
    (/\ LimitChecked(r)
     /\ req[r].user[1].subscription_tier = "community"
     /\ req[r].user[1].request_count_reset_date # Null) =>
      LET user == req[r].user[1]
          elapsed == req[r].checked_at - user.request_count_reset_date[1]
      IN \A d \in 0..29 :
           (d * DayTicks <= elapsed /\ elapsed < (d + 1) * DayTicks) =>
             IF user.monthly_requests >= MaxMonthlyRequests
               THEN /\ QuotaRejected(r, "monthly_request_limit_exceeded")
                    /\ req[r].outcome.days_until_reset = 30 - d
               ELSE req[r].rejected_at # "quota"

\* A community record at its cap, reset 5 days ago, was rejected with 25 days to go.
C5_Witness ==
  \E r \in Reqs :
    /\ LimitChecked(r)
    /\ req[r].user[1].request_count_reset_date = Some(-(5 * DayTicks))
    /\ req[r].user[1].monthly_requests = MaxMonthlyRequests
    /\ QuotaRejected(r, "monthly_request_limit_exceeded")
    /\ req[r].outcome.days_until_reset = 25

\* C6: for a record of either tier and a feature in that tier's restricted
\* set, _check_feature_access rejects with feature_access_denied, naming the
\* feature and the tier, whatever the counters and the reset date are.
C6_FeatureDenied ==
  \A r \in Reqs :
    FeatureChecked(r) =>
      LET user == req[r].user[1]
          restricted == IF user.subscription_tier = "free"
                          THEN SUBSCRIPTION_LIMITS.free.restricted_features
                          ELSE SUBSCRIPTION_LIMITS.community.restricted_features
      IN req[r].feature \in restricted =>
           /\ Rejected(r)
           /\ req[r].rejected_at = "feature"
           /\ req[r].outcome.status = 403
           /\ req[r].outcome.error = "feature_access_denied"
           /\ req[r].outcome.feature = req[r].feature
           /\ req[r].outcome.current_tier = user.subscription_tier

\* A community record that has used nothing of its quota was denied a
\* restricted feature.
C6_Witness ==
  \E r \in Reqs :
    /\ FeatureChecked(r)
    /\ req[r].user[1].subscription_tier = "community"
    /\ req[r].user[1].monthly_requests = 0
    /\ req[r].user[1].request_count_reset_date = Null
    /\ req[r].feature = "lore"
    /\ req[r].outcome.error = "feature_access_denied"

\* ---- usage-record store
\* Request r is inside get_or_create_user.
Resolving(r) == req[r].pc \in {"lookup", "insert"}
QuotaFields(row) ==
  <<row.subscription_tier, row.total_requests, row.monthly_requests,
    row.request_count_reset_date>>

\* C7: get_or_create_user returns a row with the same id every time it is
\* called for an identity; it adds a row only when the identity has none, with
\* tier free, both counters 0 and a null reset date; and it leaves tier,
\* counters and reset date of an existing row as they were.
C7_GetOrCreate ==
  [][\A r \in Reqs :
       (Resolving(r) /\ req'[r] # req[r]) =>
         LET u == req[r].tok.sub
         IN /\ \A i, j \in 1..Len(resolved'[u]) :
                 resolved'[u][i].id = resolved'[u][j].id
            /\ \A row \in users :
                 \E kept \in users' :
                   kept.id = row.id /\ QuotaFields(kept) = QuotaFields(row)
            /\ \A row \in users' :
                 (\A old \in users : old.id # row.id) =>
                   /\ FindUser(users, u) = {}
                   /\ row.auth0_user_id = u
                   /\ QuotaFields(row) = <<"free", 0, 0, Null>>
            /\ Cardinality(FindUser(users', u)) <= 1]_vars

\* The first call created the row and the second call returned the same row.
C7_Witness ==
  /\ Len(resolved["u1"]) = 2
  /\ resolved["u1"][1].created
  /\ ~resolved["u1"][2].created
  /\ resolved["u1"][2].id = resolved["u1"][1].id

\* ---- token verifier
Verified(r) == req[r].pc = "done" /\ req[r].auth # Null
ExpiryTicks(seconds) == seconds * TicksPerSecond

\* C8 as stated: every token without a kid, or with a kid that the key set
\* obtained does not hold, ends with invalid_header and no key was handed to
\* the signature check.
C8_AsStated ==
  \A r \in Reqs :
    Verified(r) =>
      LET a == req[r].auth[1]
          kid == req[r].tok.kid
      IN (kid = Null \/ (a.jwks # Null /\ kid[1] \notin a.jwks[1].keys))
           => (a.error = "invalid_header" /\ a.key = Null)

\* C8: when verify_token has obtained a key set (from the cache or by a fetch
\* that succeeded), a token without a kid or with a kid the key set does not
\* hold ends with invalid_header; a token whose header does not parse ends
\* with invalid_header too; and in all these cases, and when the fetch fails
\* (invalid_token), no key is handed to the signature check.
C8_UnknownKey ==
  \A r \in Reqs :
    Verified(r) =>
      LET a == req[r].auth[1]
          tok == req[r].tok
      IN (tok.kid = Null \/ (a.jwks # Null /\ tok.kid[1] \notin a.jwks[1].keys))
           => /\ a.status = 401
              /\ a.key = Null
              /\ (a.jwks # Null \/ ~tok.header_ok) => a.error = "invalid_header"
              /\ (a.jwks = Null /\ tok.header_ok)
                   => (a.jwks_from = "failed" /\ a.error = "invalid_token")

\* A token naming k2 was checked against a fetched key set that holds only k1.
C8_Witness ==
  \E r \in Reqs :
    /\ Verified(r)
    /\ req[r].tok.kid = Some("k2")
    /\ req[r].auth[1].jwks = Some([keys |-> {"k1"}])
    /\ req[r].auth[1].error = "invalid_header"

\* C9 as stated: every token whose exp lies in the past ends with token_expired.
C9_AsStated ==
  \A r \in Reqs :
    Verified(r) =>
      (ExpiryTicks(req[r].tok.exp) < req[r].auth[1].at
         => req[r].auth[1].error = "token_expired")

\* C9: a token whose exp is earlier than the current time in whole seconds is
\* never accepted; it ends with token_expired when its header parses, its kid
\* is in the key set obtained, its signature verifies and its nbf claim
\* passes, and otherwise with the error of the earlier step (invalid_header,
\* invalid_signature or invalid_token).
C9_Expired ==
  \A r \in Reqs :
    Verified(r) =>
      LET a == req[r].auth[1]
          tok == req[r].tok
      IN tok.exp < IntTime(a.at) =>
           /\ a.status = 401
           /\ (a.jwks # Null /\ tok.kid # Null /\ tok.kid[1] \in a.jwks[1].keys
               /\ tok.fault \notin {"signature", "not_yet_valid"})
                => a.error = "token_expired"
           /\ a.error = "token_expired" => a.key = tok.kid

\* An expired token with a wrong audience, signed by a known key, was refused as expired.
C9_Witness ==
  \E r \in Reqs :
    /\ Verified(r)
    /\ req[r].tok.exp < IntTime(req[r].auth[1].at)
    /\ req[r].tok.fault = "audience"
    /\ req[r].auth[1].error = "token_expired"

\* C10: verify_token uses the cached key set only when the call is made before
\* the cached expiry (and then it uses exactly the cached document); a call
\* made at or after the expiry either works with a key set fetched by that
\* call or fails without handing any key to the signature check.
C10_CacheExpiry ==
  \A r \in Reqs :
    (Verified(r) /\ req[r].tok.header_ok) =>
      LET a == req[r].auth[1]
          seen == req[r].cache_seen
      IN /\ a.jwks_from = "cache"
              => /\ seen.jwks # Null
                 /\ req[r].began < ExpiryTicks(seen.expiry)
                 /\ a.jwks = seen.jwks
         /\ req[r].began >= ExpiryTicks(seen.expiry)
              => \/ a.jwks_from = "fetch"
                 \/ (a.jwks_from = "failed" /\ a.status = 401 /\ a.key = Null)

\* A call found a cached key set past its expiry and verified the token
\* against a key set it fetched itself.
C10_Witness ==
  \E r \in Reqs :
    /\ Verified(r)
    /\ req[r].cache_seen.jwks # Null
    /\ req[r].began >= ExpiryTicks(req[r].cache_seen.expiry)
    /\ req[r].auth[1].jwks_from = "fetch"
    /\ req[r].auth[1].status = 200

\* C11: a verify_token call whose key-set fetch failed ends the request with
\* status 503 (service unavailable), and not with an authentication error.
C11_FetchFailure ==
  \A r \in Reqs :
    (Verified(r) /\ req[r].auth[1].jwks_from = "failed") =>
      /\ req[r].outcome.status = 503
      /\ req[r].auth[1].status # 401

\* ---- order of the steps of a request
\* C12: a request that the transport throttle rejects has read no usage
\* record, created none and incremented no counter.
C12_ThrottleBeforeStore ==
  \A r \in Reqs :
    (Finished(r) /\ req[r].rejected_at = "throttle") =>
      /\ req[r].user = Null
      /\ ~req[r].created
      /\ req[r].bumps = 0

\* C13: the throttle of a request whose caller has been authenticated uses the
\* key rate_limit:user:<id> of that caller, so that requests of callers with
\* different identities never use the same key.
C13_KeyedByIdentity ==
  \A r \in Reqs :
    (req[r].pc # "idle" /\ req[r].throttle # Null /\ req[r].current_user # Null) =>
      /\ req[r].throttle[1].key = <<"user", req[r].current_user[1].user_id>>
      /\ \A o \in Reqs :
           (/\ req[o].pc # "idle" /\ req[o].throttle # Null /\ req[o].current_user # Null
            /\ req[o].current_user[1].user_id # req[r].current_user[1].user_id)
             => req[o].throttle[1].key # req[r].throttle[1].key

\* The number of requests that can be between their check and their increment.
Concurrency == Cardinality(Reqs)

\* C14: requests for one identity that interleave between the check and the
\* increment can take the count past the cap, by at most the number of such
\* requests less one: no free-tier record that started at or under its cap
\* has total_requests above 150 + Concurrency - 1, and no community record has
\* monthly_requests above 300 + Concurrency - 1.
C14_OvershootBound ==
  \A row \in users :
    /\ row.subscription_tier = "free"
         => row.total_requests <= MaxTotalRequests + Concurrency - 1
    /\ row.subscription_tier = "community"
         => row.monthly_requests <= MaxMonthlyRequests + Concurrency - 1

\* Two requests both read total_requests = 149, both passed the check and both
\* incremented: the record stands at 151.
C14_Witness ==
  /\ \A r \in Reqs :
       /\ req[r].pc # "idle"
       /\ req[r].bumps = 1
       /\ req[r].user[1].subscription_tier = "free"
       /\ req[r].user[1].total_requests = MaxTotalRequests - 1
       /\ check_request_limit(req[r].user[1], req[r].checked_at) = Ok
  /\ \E row \in users : row.total_requests = MaxTotalRequests + 1

\* C19: a request whose token failed verification has ended, rejected at the
\* authentication step with status 401 and the error kind verify_token raised;
\* it has called no throttle, read or created no usage record and incremented
\* no counter.
C19_AuthFirst ==
  \A r \in Reqs :
    (req[r].pc # "idle" /\ req[r].auth # Null /\ req[r].auth[1].status # 200) =>
      /\ Rejected(r)
      /\ req[r].rejected_at = "auth"
      /\ req[r].outcome.status = 401
      /\ req[r].outcome.error = req[r].auth[1].error
      /\ req[r].outcome.error \in {"invalid_header", "token_expired", "invalid_audience",
                                   "invalid_issuer", "invalid_signature", "invalid_token"}
      /\ req[r].throttle = Null
      /\ req[r].user = Null /\ ~req[r].created
      /\ req[r].bumps = 0

\* A gaming_chat request with a token without kid was refused with
\* invalid_header while the window of its address and the table stayed empty.
C19_Witness ==
  \E r \in Reqs :
    /\ Rejected(r)
    /\ req[r].route = "gaming_chat"
    /\ req[r].outcome = [status |-> 401, error |-> "invalid_header"]
    /\ requests[<<"ip", req[r].addr>>] = <<>>
    /\ users = {}

\* ---- the permission list of the identity
FirstIndex(xs, x) ==
  CHOOSE i \in DOMAIN xs : xs[i] = x /\ \A j \in 1..(i - 1) : xs[j] # x
RECURSIVE Flatten(_)
Flatten(words) == IF words = <<>> THEN <<>> ELSE Head(words) \o Flatten(Tail(words))

\* C15: the permissions of the AuthenticatedUser are the words of the scope
\* claim followed by the permissions claim, each string once, at the place of
\* its first occurrence: the list has no duplicate, holds exactly the strings
\* of the two inputs, and keeps the order of their first occurrences.  The
\* words of the scope are its runs of non-space characters.
C15_Permissions ==
  \A r \in Reqs :
    (Admitted(r) /\ req[r].current_user # Null) =>
      LET tok == req[r].tok
          words == IF tok.scope = Null THEN <<>> ELSE split(tok.scope[1])
          merged == words \o tok.permissions
          out == req[r].current_user[1].permissions
      IN /\ \A i, j \in DOMAIN out : out[i] = out[j] => i = j
         /\ Range(out) = Range(merged)
         /\ \A i, j \in DOMAIN out :
              i < j => FirstIndex(merged, out[i]) < FirstIndex(merged, out[j])
         /\ \A i \in DOMAIN words : words[i] # <<>> /\ " " \notin Range(words[i])
         /\ tok.scope # Null
              => Flatten(words) = SelectSeq(tok.scope[1], LAMBDA c : c # " ")

\* scope "w r" and permissions ["r", "w"] gave ["w", "r"].
C15_Witness ==
  \E r \in Reqs :
    /\ Admitted(r)
    /\ req[r].tok.scope = Some(<<"w", " ", "r">>)
    /\ req[r].tok.permissions = << <<"r">>, <<"w">> >>
    /\ req[r].current_user = Some([user_id |-> "u1",
                                   permissions |-> << <<"w">>, <<"r">> >>])

MonthlyResetStep ==
  \A row \in users : \A next \in users' :
    (next.id = row.id /\ next.monthly_requests < row.monthly_requests) =>
      /\ row.subscription_tier = "community"
      /\ row.request_count_reset_date # Null
      /\ now - row.request_count_reset_date[1] >= 30 * DayTicks
      /\ next.monthly_requests = 1
      /\ next.request_count_reset_date = Some(now)
      /\ \E r \in Reqs : req[r].pc = "increment" /\ req'[r].bumps = req[r].bumps + 1

\* A request whose increment reset the monthly count ends admitted.
ResetOnlyWhenAdmitted ==
  \A r \in Reqs : (Finished(r) /\ req[r].was_reset) => Admitted(r)

\* C17: for a community record the monthly count never decreases except at a
\* reset; a reset happens only on an admitted request made when 30 days or
\* more have passed since the reset date; and it sets the reset date to now,
\* so that each elapsed period causes exactly one reset.
C17_LazyReset == [] ResetOnlyWhenAdmitted /\ [][MonthlyResetStep]_vars

\* ---- the remaining-quota projection
\* What get_request_limit_info reported agrees with _check_request_limit on
\* the same record at the same instant.
LimitInfoAgrees ==
  \A r \in Reqs :
    (Finished(r) /\ req[r].info # Null) =>
      LET user == req[r].user[1]
          t == req[r].checked_at
          reset == user.request_count_reset_date
          info == req[r].info[1]
      IN /\ user.subscription_tier \in {"free", "community"}
              => (info.remaining_requests = 0
                    <=> check_request_limit(user, t).status # 200)
         /\ (user.subscription_tier = "community" /\ reset # Null
             /\ t - reset[1] >= 30 * DayTicks)
              => info.remaining_requests = MaxMonthlyRequests
         /\ user \in users

\* The step that computes the projection changes no row of the table.
LimitInfoReadOnly ==
  \A r \in Reqs :
    (req[r].pc = "info" /\ req'[r].pc # "info") => (users' = users /\ req'[r].info # Null)

\* C18: get_request_limit_info changes no field of the record, and for a free
\* or community record it reports remaining_requests = 0 exactly when
\* _check_request_limit rejects that record at that instant; a community
\* record due for a reset is reported with the full monthly cap remaining.
C18_ReadOnlyProjection == [] LimitInfoAgrees /\ [][LimitInfoReadOnly]_vars

\* A community record over its cap and due for a reset was reported with 300
\* remaining.
C18_Witness ==
  \E r \in Reqs :
    /\ Finished(r) /\ req[r].info # Null
    /\ req[r].user[1].subscription_tier = "community"
    /\ req[r].user[1].monthly_requests = MaxMonthlyRequests + 1
    /\ req[r].user[1].request_count_reset_date = Some(-(30 * DayTicks))
    /\ req[r].info[1].remaining_requests = MaxMonthlyRequests

\* ---- a limited call of the limiter
\* The step is a call of is_rate_limited for key k that returned limited.
LimitedCall(k) ==
  /\ Len(calls') = Len(calls) + 1
  /\ calls'[Len(calls')].key = k
  /\ calls'[Len(calls')].limited

\* The instant from which a window q holding at least limit entries admits
\* the next call: when the limit-th newest entry is window seconds old.
AdmittedAgainAt(q) == q[Len(q) - limit + 1] + WindowTicks

\* A limited call leaves the recorded instants as they were apart from the
\* eviction of those window seconds old or older, and so leaves the instant of
\* the next admission where it was.
LimitedCallFrame(k) ==
  LET before == requests[k]
      after == requests'[k]
  IN /\ after = SelectSeq(before, LAMBDA x : x > now - WindowTicks)
     /\ Len(after) >= limit
     /\ calls'[Len(calls')].count = Len(after)
     /\ AdmittedAgainAt(after) = AdmittedAgainAt(before)

\* C20 as stated: a limited call returns
\* retry = window - (now - oldest remaining entry) + 1, clamped to >= 0, and
\* leaves the recorded instants unchanged apart from eviction.
C20_AsStated ==
  [][\A k \in Keys :
       LimitedCall(k) =>
         /\ LimitedCallFrame(k)
         /\ calls'[Len(calls')].retry * TicksPerSecond
              = Max(WindowTicks - (now - requests'[k][1]) + TicksPerSecond, 0)]_vars

\* C20: a limited call returns retry = the whole seconds of
\* window - (now - oldest remaining entry), plus 1 (which is at least 1, so
\* that the clamp never acts), and leaves the recorded instants unchanged
\* apart from eviction: it does not record now, and rejected calls do not move
\* the instant of the next admission.
C20_LimitedCall ==
  [][\A k \in Keys :
       LimitedCall(k) =>
         /\ LimitedCallFrame(k)
         /\ calls'[Len(calls')].retry
              = ((WindowTicks - (now - requests'[k][1])) \div TicksPerSecond) + 1
         /\ calls'[Len(calls')].retry >= 1]_vars

\* Two calls in a row were limited, the second a fraction of a second later
\* than a whole number of seconds after the oldest entry, and the window
\* still holds limit entries.
C20_Witness ==
  \E k \in Keys :
    LET h == CallsOf(k)
        n == Len(h)
    IN /\ n >= 3
       /\ h[n].limited /\ h[n - 1].limited
       /\ h[n].t > h[n - 1].t
       /\ Len(requests[k]) = limit
       /\ (h[n].t - requests[k][1]) % TicksPerSecond # 0
       /\ h[n].retry < h[n - 1].retry

\* ---- the eviction step and the stored window
\* The step is a call of is_rate_limited for key k.
CallFor(k) ==
  /\ Len(calls') = Len(calls) + 1
  /\ calls'[Len(calls')].key = k

\* C21: a call of is_rate_limited removes the recorded instants t with
\* t < now - window and no others: an instant with t >= now - window, also
\* one exactly window seconds old, is kept and counted.
C21_Eviction ==
  [][\A k \in Keys :
       CallFor(k) =>
         LET kept == SelectSeq(requests[k], LAMBDA x : x >= now - WindowTicks)
             call == calls'[Len(calls')]
         IN /\ requests'[k] = IF call.limited THEN kept ELSE Append(kept, now)
            /\ call.count = Len(requests'[k])]_vars

\* The window stored for every key holds at most limit instants, in
\* non-decreasing order.
WindowBounded ==
  \A k \in Keys :
    /\ Len(requests[k]) <= limit
    /\ \A i, j \in DOMAIN requests[k] : i < j => requests[k][i] <= requests[k][j]

\* Right after a call for key k the window of k holds no instant older than
\* now - window.
WindowTrimmed ==
  \A k \in Keys :
    CallFor(k) => \A i \in DOMAIN requests'[k] : requests'[k][i] >= now - WindowTicks

\* C22: with limit and window fixed and a clock that does not go back, the
\* window stored for each key holds at most limit instants in non-decreasing
\* order, and right after a call for a key its window holds no instant older
\* than now - window.
C22_WindowInvariant == [] WindowBounded /\ [][WindowTrimmed]_vars

\* A key's window is full with two instants although three calls for it were
\* admitted: the oldest was evicted.
C22_Witness ==
  \E k \in Keys :
    /\ limit = 2 /\ Len(requests[k]) = 2
    /\ requests[k][1] < requests[k][2]
    /\ Len(SelectSeq(CallsOf(k), LAMBDA c : ~c.limited)) = 3

\* ---- is the advertised Retry-After enough
\* Call j of history h is the first call made retry seconds or more after the
\* limited call i.
FirstCallAfterRetry(h, i, j) ==
  /\ i < j
  /\ h[i].limited
  /\ h[j].t >= h[i].t + h[i].retry * TicksPerSecond
  /\ \A m \in (i + 1)..(j - 1) : h[m].t < h[i].t + h[i].retry * TicksPerSecond

\* The latest limited call of h reported a retry-after between 1 and window + 1.
RetryInRange(h) ==
  (h # <<>> /\ h[Len(h)].limited)
    => (1 <= h[Len(h)].retry /\ h[Len(h)].retry <= window + 1)

\* C28 as stated: a limited call reports 1 <= retry <= window + 1, and the
\* first call for the key made retry seconds or more later is not limited.
\* (Stated of the latest call of each key: every call is the latest one in
\* the state it leads to.)
C28_AsStated ==
  \A k \in Keys :
    LET h == CallsOf(k)
    IN /\ RetryInRange(h)
       /\ \A i \in 1..Len(h) : FirstCallAfterRetry(h, i, Len(h)) => ~h[Len(h)].limited

\* C28: a limited call reports 1 <= retry <= window + 1, and the first call
\* for the key made retry seconds or more later is not limited, provided no
\* call for that key was admitted in between.
C28_RetryAfter ==
  \A k \in Keys :
    LET h == CallsOf(k)
    IN /\ RetryInRange(h)
       /\ \A i \in 1..Len(h) :
            (/\ FirstCallAfterRetry(h, i, Len(h))
             /\ \A m \in (i + 1)..(Len(h) - 1) : h[m].limited)
              => ~h[Len(h)].limited

\* A call was limited with retry-after 1 half a second after the recorded
\* one, a second call was limited too, and the call made one second after the
\* first limited call was admitted.
C28_Witness ==
  \E k \in Keys :
    LET h == CallsOf(k)
    IN /\ Len(h) = 4
       /\ h[2].limited /\ h[2].retry = 1 /\ h[2].t - h[1].t = 1
       /\ h[3].limited /\ h[3].t < h[2].t + TicksPerSecond
       /\ h[4].t = h[2].t + h[2].retry * TicksPerSecond
       /\ ~h[4].limited

\* ---- the reset date reported with a monthly rejection
\* C23: a community request rejected with monthly_request_limit_exceeded is
\* told the next-reset date, which is the stored reset date advanced by one
\* calendar month and the same date get_request_limit_info reports for the
\* record at that instant.
C23_ReportedResetDate ==
  \A r \in Reqs :
    QuotaRejected(r, "monthly_request_limit_exceeded") =>
      LET user == req[r].user[1]
      IN /\ req[r].outcome.reset_date
              = Some(AddCalendarMonth(user.request_count_reset_date[1]))
         /\ req[r].outcome.reset_date
              = get_request_limit_info(user, req[r].checked_at).reset_date

\* ---- the order of the checks of the gate
\* Request r has gone through the checks of check_feature_access_and_limits.
GatePassed(r) == FeatureChecked(r) /\ ChecksLimit(req[r].route)
RestrictedFor(user) ==
  IF user.subscription_tier = "free"
    THEN SUBSCRIPTION_LIMITS.free.restricted_features
    ELSE SUBSCRIPTION_LIMITS.community.restricted_features

\* C24: in check_feature_access_and_limits the feature is checked before the
\* request limit and the increment comes last: a request for a restricted
\* feature is rejected with 403 feature_access_denied also when the record is
\* over its quota, a request rejected by the limit check (429) had passed the
\* feature check, and a request has incremented the counter only when both
\* checks passed on the record it read, neither earlier nor more than once.
C24_GateOrder ==
  \A r \in Reqs :
    GatePassed(r) =>
      LET user == req[r].user[1]
          over == check_request_limit(user, req[r].checked_at).status # 200
      IN /\ req[r].feature \in RestrictedFor(user)
              => /\ Rejected(r) /\ req[r].rejected_at = "feature"
                 /\ req[r].outcome.status = 403
                 /\ req[r].outcome.error = "feature_access_denied"
         /\ (req[r].feature \notin RestrictedFor(user) /\ over)
              => /\ Rejected(r) /\ req[r].rejected_at = "quota"
                 /\ req[r].outcome.status = 429
         /\ Rejected(r) => req[r].bumps = 0
         /\ req[r].bumps <= 1
         /\ req[r].bumps = 1
              => /\ req[r].feature \notin RestrictedFor(user) /\ ~over
                 /\ req[r].internal_user[1].id = user.id
                 /\ req[r].incremented_at >= req[r].checked_at

\* A free record that has used up its quota asked for a restricted feature
\* and was refused with feature_access_denied; its counter stayed at the cap.
C24_Witness ==
  \E r \in Reqs :
    /\ GatePassed(r)
    /\ req[r].user[1].subscription_tier = "free"
    /\ req[r].user[1].total_requests = MaxTotalRequests
    /\ req[r].feature = "builds"
    /\ req[r].outcome.status = 403 /\ req[r].outcome.error = "feature_access_denied"
    /\ \A row \in users : row.total_requests = MaxTotalRequests

\* ---- a community record whose reset date is null
NullResetCommunity(user) ==
  user.subscription_tier = "community" /\ user.request_count_reset_date = Null

\* C25: a community record with a null reset date is never rejected by
\* _check_request_limit, whatever its monthly count, and
\* get_request_limit_info reports the full monthly cap as remaining for it.
C25_NullResetDate ==
  \A r \in Reqs :
    /\ (LimitChecked(r) /\ NullResetCommunity(req[r].user[1]))
         => req[r].rejected_at # "quota"
    /\ (Finished(r) /\ req[r].info # Null /\ NullResetCommunity(req[r].user[1]))
         => /\ req[r].info[1].remaining_requests = MaxMonthlyRequests
            /\ req[r].info[1].max_requests = MaxMonthlyRequests

\* A community record one over its monthly cap, with a null reset date, passed
\* the limit check and was incremented.
C25_Witness ==
  \E r \in Reqs :
    /\ LimitChecked(r)
    /\ NullResetCommunity(req[r].user[1])
    /\ req[r].user[1].monthly_requests = MaxMonthlyRequests + 1
    /\ req[r].bumps = 1
    /\ Admitted(r)

\* ---- a record of a tier that is neither free nor community
OtherTier(user) == user.subscription_tier \notin {"free", "community"}

OneFetchPerCall ==
  \A r \in Reqs :
    req[r].pc # "idle" =>
      /\ req[r].fetches <= 1
      /\ (Verified(r) /\ req[r].tok.header_ok) =>
           LET a == req[r].auth[1]
               seen == req[r].cache_seen
           IN /\ ~CacheIsFresh(seen.jwks, seen.expiry, IntTime(req[r].began))
                   => (req[r].fetches = 1 /\ a.jwks_from \in {"fetch", "failed"})
              /\ a.jwks_from = "failed"
                   => (a.status = 401 /\ a.jwks = Null /\ a.key = Null)

\* The step in which a fetch fails leaves the cached document and expiry as
\* they were.
FailedFetchKeepsCache ==
  \A r \in Reqs :
    (/\ req[r].pc = "fetching" /\ req'[r].pc = "done"
     /\ req'[r].auth[1].jwks_from = "failed")
      => (jwks_cache' = jwks_cache /\ cache_expiry' = cache_expiry)

\* C26: one verify_token call makes at most one fetch of the key set; a fetch
\* that fails leaves the cached document and its expiry as they were, so that
\* a later call that finds the cache empty or expired fetches again; and the
\* call whose fetch failed does not fall back on the expired document.
C26_FailedFetch == [] OneFetchPerCall /\ [][FailedFetchKeepsCache]_vars

\* A call found an expired document in the cache, its fetch failed, and it
\* ended without a key set while the cache still holds the expired document
\* with its old expiry.
C26_Witness ==
  \E r \in Reqs :
    /\ Verified(r)
    /\ req[r].auth[1].jwks_from = "failed"
    /\ req[r].cache_seen.jwks # Null
    /\ req[r].began >= ExpiryTicks(req[r].cache_seen.expiry)
    /\ req[r].auth[1].jwks = Null
    /\ CacheSeen = req[r].cache_seen

\* ---- the cached document and its expiry
\* The cache is empty with expiry 0, or holds a document with an expiry, as
\* every request found it.
CacheWhole ==
  /\ jwks_cache = Null <=> cache_expiry = 0
  /\ \A r \in Reqs :
       (req[r].pc \in {"fetching", "done"} /\ req[r].tok.header_ok)
         => (req[r].cache_seen.jwks = Null <=> req[r].cache_seen.expiry = 0)

\* Every step that changes the cached document or the cached expiry is the
\* end of one fetch, which writes the document it fetched and the expiry it
\* computed from the time at which it started.
CacheWrittenTogether ==
  (jwks_cache' # jwks_cache \/ cache_expiry' # cache_expiry) =>
    \E r \in Reqs :
      /\ req[r].pc = "fetching" /\ req'[r].pc = "done"
      /\ req'[r].auth[1].jwks_from = "fetch"
      /\ jwks_cache' = req'[r].auth[1].jwks
      /\ jwks_cache' # Null /\ jwks_cache'[1] \in Docs
      /\ cache_expiry' = req[r].current_time + JwksTtl

\* C27: the cached document and the cached expiry are always written together
\* by one refresh, also when two refreshes overlap at the fetch: the document
\* is replaced as a whole and is never paired with the expiry of another
\* fetch.
C27_CachePair == [] CacheWhole /\ [][CacheWrittenTogether]_vars

\* Two refreshes overlapped: the one that started first ended last, and the
\* cache holds its document with its expiry, both different from those of the
\* other refresh.
C27_Witness ==
  \E r, o \in Reqs :
    /\ Verified(r) /\ Verified(o)
    /\ req[r].auth[1].jwks_from = "fetch" /\ req[o].auth[1].jwks_from = "fetch"
    /\ req[r].current_time < req[o].current_time
    /\ req[o].cache_seen.jwks = Null
    /\ req[r].auth[1].jwks # req[o].auth[1].jwks
    /\ jwks_cache = req[r].auth[1].jwks
    /\ cache_expiry = req[r].current_time + JwksTtl

\* ---- two first requests of one identity
\* C29: when two first requests of a new identity interleave between the
\* lookup and the insert of get_or_create_user, the identity has exactly one
\* usage record afterwards and both requests obtain it: neither fails in the
\* store.
C29_BothObtain ==
  /\ \A u \in Identities : Cardinality(FindUser(users, u)) <= 1
  /\ \A r \in Reqs :
       req[r].pc # "idle" =>
         /\ req[r].rejected_at # "store"
         /\ req[r].user # Null
              => \E row \in FindUser(users, req[r].current_user[1].user_id) :
                   row.id = req[r].user[1].id

====
